---- MODULE Spec2Model ----
(***************************************************************************)
(* Model of lib/k1util/k1util.go: Ethereum RSV signing and verification    *)
(* over secp256k1 and the conversions between compressed, uncompressed and *)
(* wrapped public keys.                                                    *)
(*                                                                         *)
(* The functions of k1util.go are translated statement by statement.  The  *)
(* external libraries they call (dcrd secp256k1/ecdsa, go-ethereum crypto, *)
(* encoding/hex, strings) are modelled by what they compute, over a curve  *)
(* of the secp256k1 family, y^2 = x^3 + 7 over F_p, of prime order n < p,  *)
(* with p = 3 (mod 4), scaled down so that every point can be enumerated.  *)
(* Byte buffers keep their real lengths (32, 33, 64, 65, 20): a field      *)
(* element is its 32-byte big-endian encoding.                             *)
(***************************************************************************)
EXTENDS Integers, Sequences, FiniteSets, TLC

VARIABLES pc, in, out, calls

vars == <<pc, in, out, calls>>

(***************************************************************************)
(* Program constants.                                                      *)
(***************************************************************************)
privKeyLen == 32
pubkeyCompressedLen == 33
pubkeyUncompressedLen == 65
vIdx == 64
prefix == 4
PubKeyBytesLenCompressed == 33
AddressLength == 20

(***************************************************************************)
(* Bounds of the model.                                                    *)
(***************************************************************************)
MaxKey == 4        \* private scalars 0..MaxKey (0 is not a valid key)
MaxDigest == 2     \* digests whose big-endian value is 0..MaxDigest
MaxKeyLen == 34    \* private key byte forms of length 0..MaxKeyLen
MaxPubLen == 35    \* public key byte forms of length 0..MaxPubLen

(***************************************************************************)
(* The curve: y^2 = x^3 + CurveB over F_CurveP, group order CurveN, base   *)
(* point (Gx, Gy).  secp256k1 has the same shape: CurveB = 7, prime order  *)
(* n < p, cofactor 1, p = 3 (mod 4).                                       *)
(***************************************************************************)
CurveP == 211
CurveN == 199
CurveB == 7
Gx == 3
Gy == 33

Byte == 0..255

RECURSIVE ModExp(_, _, _)
ModExp(a, e, m) ==
    IF e = 0 THEN 1 % m
    ELSE LET h == ModExp(a, e \div 2, m)
             sq == (h * h) % m
         IN  IF e % 2 = 1 THEN (sq * (a % m)) % m ELSE sq

\* Modular inverses by Fermat's little theorem (both moduli are prime).
InvP(a) == ModExp(a % CurveP, CurveP - 2, CurveP)
InvN(a) == ModExp(a % CurveN, CurveN - 2, CurveN)

\* A point is a record; the point at infinity has no coordinates.
Inf == [X |-> -1, Y |-> -1]
Pt(x, y) == [X |-> x, Y |-> y]

IsOnCurve(x, y) ==
    /\ x >= 0 /\ x < CurveP /\ y >= 0 /\ y < CurveP
    /\ (y * y) % CurveP = (x * x * x + CurveB) % CurveP

PointNeg(A) == IF A = Inf THEN Inf ELSE Pt(A.X, (CurveP - A.Y) % CurveP)

\* The chord through A and B (the tangent at A when B = A) has slope l and
\* meets the curve again at the point with abscissa x3.
ThirdPoint(A, l, x3) == Pt(x3, (l * (A.X - x3 + CurveP) + CurveP - A.Y) % CurveP)

AddWithSlope(A, B, l) ==
    ThirdPoint(A, l, (l * l + 2 * CurveP - A.X - B.X) % CurveP)

PointAdd(A, B) ==
    IF A = Inf THEN B
    ELSE IF B = Inf THEN A
    ELSE IF A.X = B.X /\ (A.Y + B.Y) % CurveP = 0 THEN Inf
    ELSE IF A.X = B.X
    THEN AddWithSlope(A, B, (3 * A.X * A.X * InvP(2 * A.Y)) % CurveP)
    ELSE AddWithSlope(A, B, ((B.Y - A.Y + CurveP) * InvP(B.X - A.X + CurveP)) % CurveP)

\* One step of double-and-add: h is (k div 2) * A.
DoubleAndAdd(k, A, h) ==
    IF k % 2 = 1 THEN PointAdd(PointAdd(h, h), A) ELSE PointAdd(h, h)

RECURSIVE ScalarMult(_, _)
ScalarMult(k, A) ==
    IF k = 0 \/ A = Inf THEN Inf
    ELSE DoubleAndAdd(k, A, ScalarMult(k \div 2, A))

\* Multiples of the base point (the libraries keep such a table too).
BaseTable == [k \in 0..(CurveN - 1) |-> ScalarMult(k, Pt(Gx, Gy))]
ScalarBaseMult(k) == BaseTable[k % CurveN]

(***************************************************************************)
(* Byte buffers.                                                           *)
(***************************************************************************)
Zeros(n) == [i \in 1..n |-> 0]

\* 32-byte big-endian encoding of 0 <= n < 2^31.
BE32(n) == [i \in 1..32 |-> IF i < 29 THEN 0
                            ELSE (n \div (256 ^ (32 - i))) % 256]

\* Big-endian value of a buffer, saturating at BigCap = 2^16 (above every
\* modulus): the value is below 2^16 when every byte but the last two is 0.
BigCap == 256 * 256
FromBE(bs) ==
    LET n == Len(bs)
    IN  IF \E i \in 1..(n - 2) : bs[i] # 0 THEN BigCap
        ELSE IF n = 0 THEN 0
        ELSE IF n = 1 THEN bs[1]
        ELSE bs[n - 1] * 256 + bs[n]

\* Big-endian value of a buffer reduced modulo m.
RECURSIVE ModBEUpTo(_, _, _)
ModBEUpTo(bs, n, m) ==
    IF n = 0 THEN 0
    ELSE (ModBEUpTo(bs, n - 1, m) * 256 + bs[n]) % m
ModBE(bs, m) == ModBEUpTo(bs, Len(bs), m)

\* Rotl with the rotation direction reversed.
Rotr(bs) == <<bs[Len(bs)]>> \o SubSeq(bs, 1, Len(bs) - 1)

\* append(sig[1:], sig[0]): the buffer rotated left by one byte.
Rotl(bs) == Tail(bs) \o <<Head(bs)>>

(***************************************************************************)
(* dcrd secp256k1/ecdsa: deterministic signing with a recovery code.       *)
(***************************************************************************)
\* Stand-in for RFC 6979: a nonce in 1..n-1 fixed by key, digest and the
\* iteration count.
NonceRFC6979(d, e, iteration) ==
    ((3 * d + 5 * e + 5 * iteration + 1) % (CurveN - 1)) + 1

\* ecdsa.sign: one attempt with nonce k.  The recovery code has bit 0 = the
\* parity of kG.y and bit 1 = "kG.x >= n"; bit 0 flips when s is replaced by
\* n - s to keep s in the lower half.
signResult(r, s, code) ==
    IF r = 0 \/ s = 0
    THEN [success |-> FALSE, r |-> 0, s |-> 0, code |-> 0]
    ELSE IF s > CurveN \div 2
    THEN [success |-> TRUE, r |-> r, s |-> CurveN - s,
          code |-> IF code % 2 = 1 THEN code - 1 ELSE code + 1]
    ELSE [success |-> TRUE, r |-> r, s |-> s, code |-> code]

signWithPoint(d, k, e, kG) ==
    signResult(kG.X % CurveN,
               (InvN(k) * ((e + (kG.X % CurveN) * d) % CurveN)) % CurveN,
               2 * (IF kG.X >= CurveN THEN 1 ELSE 0) + (kG.Y % 2))

sign(d, k, e) == signWithPoint(d, k, e, ScalarBaseMult(k))

\* signRFC6979: the first iteration whose nonce gives a signature.
RECURSIVE signRFC6979(_, _, _)
signRetry(d, e, iteration, res) ==
    IF res.success THEN res ELSE signRFC6979(d, e, iteration + 1)

signRFC6979(d, e, iteration) ==
    signRetry(d, e, iteration, sign(d, NonceRFC6979(d, e, iteration), e))

compactSigMagicOffset == 27
compactSigCompPubKey == 4

\* ecdsa.SignCompact(key, hash, isCompressedKey): 65 bytes, recovery byte
\* first: <<27 + code (+ 4)>> || R || S.
compactBytes(res, isCompressedKey) ==
    <<compactSigMagicOffset + res.code
          + (IF isCompressedKey THEN compactSigCompPubKey ELSE 0)>>
        \o BE32(res.r) \o BE32(res.s)

SignCompact(d, hash, isCompressedKey) ==
    compactBytes(signRFC6979(d, ModBE(hash, CurveN), 0), isCompressedKey)

\* secp256k1.PrivKeyFromBytes: the scalar is the buffer reduced modulo n.
PrivKeyFromBytes(bz) == ModBE(bz, CurveN)

(***************************************************************************)
(* go-ethereum crypto.                                                     *)
(***************************************************************************)
\* Square root in F_p for p = 3 (mod 4); -1 when a is not a square.
RootOrNone(a, y) == IF (y * y) % CurveP = a % CurveP THEN y ELSE -1

SqrtP(a) == RootOrNone(a, ModExp(a, (CurveP + 1) \div 4, CurveP))

\* The point with abscissa x and the given parity of y; Inf when none.
PointWithParity(x, odd, y) ==
    IF y < 0 THEN Inf
    ELSE IF y % 2 = odd THEN Pt(x, y) ELSE Pt(x, (CurveP - y) % CurveP)

LiftX(x, odd) == PointWithParity(x, odd, SqrtP((x * x * x + CurveB) % CurveP))

\* ethcrypto.SigToPub(hash, sig), sig = R || S || V with V the recovery id.
\* Fails when the id is above 3, when R or S is zero or not below n, when R
\* (+ n for ids 2, 3) is not the abscissa of a point, or when the recovered
\* key is the point at infinity.
RecoveredKey(Q) ==
    IF Q = Inf THEN [pub |-> Inf, err |-> "recovery failed"]
    ELSE [pub |-> Q, err |-> "nil"]

\* Q = r^-1 * (s * R - e * G).
RecoverFromPoint(e, r, s, R) ==
    IF R = Inf THEN [pub |-> Inf, err |-> "recovery failed"]
    ELSE RecoveredKey(ScalarMult(InvN(r),
             PointAdd(ScalarMult(s, R), PointNeg(ScalarBaseMult(e)))))

RecoverFromAbscissa(e, r, s, v, x) ==
    IF x >= CurveP THEN [pub |-> Inf, err |-> "recovery failed"]
    ELSE RecoverFromPoint(e, r, s, LiftX(x, v % 2))

RecoverCompact(e, r, s, v) ==
    IF v >= 4 THEN [pub |-> Inf, err |-> "invalid signature recovery id"]
    ELSE IF r >= CurveN \/ s >= CurveN \/ r = 0 \/ s = 0
    THEN [pub |-> Inf, err |-> "recovery failed"]
    ELSE RecoverFromAbscissa(e, r, s, v, IF v \div 2 = 1 THEN r + CurveN ELSE r)

SigToPub(hash, sig) ==
    RecoverCompact(ModBE(hash, CurveN), FromBE(SubSeq(sig, 1, 32)),
                   FromBE(SubSeq(sig, 33, 64)), sig[65])

\* Stand-in for Keccak256(x || y)[12:]: 20 bytes mixed from both
\* coordinates, distinct for distinct points of the curve.
PubkeyToAddress(pub) ==
    [i \in 1..AddressLength |->
        ((pub.X + 1) * (i + 2) + (pub.Y + 1) * (2 * i + 7)) % 256]

\* ethcrypto.DecompressPubkey: 33 bytes, prefix 2 (y even) or 3 (y odd),
\* then x; x must be below p and the abscissa of a point.
DecompressedKey(R) ==
    IF R = Inf THEN [pub |-> Inf, err |-> "invalid public key"]
    ELSE [pub |-> R, err |-> "nil"]

DecompressAbscissa(parity, x) ==
    IF x >= CurveP THEN [pub |-> Inf, err |-> "invalid public key"]
    ELSE DecompressedKey(LiftX(x, parity))

DecompressPubkey(bz) ==
    IF Len(bz) # 33 THEN [pub |-> Inf, err |-> "invalid public key"]
    ELSE IF bz[1] \notin {2, 3} THEN [pub |-> Inf, err |-> "invalid public key"]
    ELSE DecompressAbscissa(bz[1] % 2, FromBE(SubSeq(bz, 2, 33)))

\* ethcrypto.CompressPubkey / SerializeCompressed.
CompressPubkey(pub) == <<2 + (pub.Y % 2)>> \o BE32(pub.X)

\* ethcrypto.FromECDSAPub: 0x04 || x || y.
FromECDSAPub(pub) == <<4>> \o BE32(pub.X) \o BE32(pub.Y)

\* ethcrypto.UnmarshalPubkey: 65 bytes, first byte 4, coordinates below p,
\* point on the curve.
UnmarshalPubkey(bz) ==
    LET x == FromBE(SubSeq(bz, 2, 33))
        y == FromBE(SubSeq(bz, 34, 65))
    IN  IF Len(bz) # 65 \/ bz[1] # 4 THEN [pub |-> Inf, err |-> "invalid secp256k1 public key"]
        ELSE IF ~IsOnCurve(x, y) THEN [pub |-> Inf, err |-> "invalid secp256k1 public key"]
        ELSE [pub |-> Pt(x, y), err |-> "nil"]

\* ethcrypto.ToECDSA (strict): 32 bytes, 0 < d < n.
ToECDSA(bz) ==
    LET d == FromBE(bz)
    IN  IF Len(bz) # 32 THEN [d |-> 0, err |-> "invalid length"]
        ELSE IF d >= CurveN THEN [d |-> 0, err |-> "invalid private key, >=N"]
        ELSE IF d = 0 THEN [d |-> 0, err |-> "invalid private key, zero or negative"]
        ELSE [d |-> d, err |-> "nil"]

\* cast.Array65: a slice as a [65]byte; an error unless it holds 65 bytes.
Array65(bz) ==
    IF Len(bz) = 65 THEN [val |-> bz, err |-> "nil"]
    ELSE [val |-> Zeros(65), err |-> "slice length not 65"]

(***************************************************************************)
(* k1util.go: signing and verification.                                    *)
(***************************************************************************)
ErrKeyLen == "invalid private key length"
ErrRecID == "invalid recovery id (V) format, must be 27 or 28"
ErrRecover == "recover public key"

\* Sign with a length check that rejects only keys that are too short.
SignShortKeysOnly(key, input) ==
    IF Len(key) < privKeyLen
    THEN [sig |-> Zeros(65), err |-> ErrKeyLen, compact |-> <<>>, calls |-> <<>>]
    ELSE LET sig == SignCompact(PrivKeyFromBytes(key), input, FALSE)
             res == Array65(Rotl(sig))
         IN  [sig |-> res.val, err |-> res.err, compact |-> sig,
              calls |-> <<"PrivKeyFromBytes", "SignCompact">>]

\* The return statement of Sign: sig is the library's compact signature.
SignReturn(sig) ==
    [sig |-> Array65(Rotl(sig)).val, err |-> Array65(Rotl(sig)).err,
     compact |-> sig, calls |-> <<"PrivKeyFromBytes", "SignCompact">>]

\* Sign(key, input): the result, the library's compact signature it was
\* built from, and the library calls made.
Sign(key, input) ==
    IF Len(key) # privKeyLen
    THEN [sig |-> Zeros(65), err |-> ErrKeyLen, compact |-> <<>>, calls |-> <<>>]
    ELSE SignReturn(SignCompact(PrivKeyFromBytes(key), input, FALSE))

\* Verify that takes a V of 0 or 1 as already normalised.
VerifyAcceptsRawV(address, hash, sig) ==
    IF sig[vIdx + 1] \notin {0, 1, 27, 28}
    THEN [ok |-> FALSE, err |-> ErrRecID, calls |-> <<>>]
    ELSE LET sig2 == [sig EXCEPT ![vIdx + 1] = IF @ >= 27 THEN @ - 27 ELSE @]
             rec == SigToPub(hash, sig2)
         IN  IF rec.err # "nil"
             THEN [ok |-> FALSE, err |-> ErrRecover, calls |-> <<"SigToPub">>]
             ELSE [ok |-> PubkeyToAddress(rec.pub) = address, err |-> "nil",
                   calls |-> <<"SigToPub", "PubkeyToAddress">>]

\* Verify that reports a failed recovery as a plain false.
VerifyFalseOnRecoverError(address, hash, sig) ==
    IF sig[vIdx + 1] # 27 /\ sig[vIdx + 1] # 28
    THEN [ok |-> FALSE, err |-> ErrRecID, calls |-> <<>>]
    ELSE LET sig2 == [sig EXCEPT ![vIdx + 1] = @ - 27]
             rec == SigToPub(hash, sig2)
         IN  IF rec.err # "nil"
             THEN [ok |-> FALSE, err |-> "nil", calls |-> <<"SigToPub">>]
             ELSE [ok |-> PubkeyToAddress(rec.pub) = address, err |-> "nil",
                   calls |-> <<"SigToPub", "PubkeyToAddress">>]

\* Verify that hands V to the library without reducing it by 27.
VerifyNoNormalize(address, hash, sig) ==
    IF sig[vIdx + 1] # 27 /\ sig[vIdx + 1] # 28
    THEN [ok |-> FALSE, err |-> ErrRecID, calls |-> <<>>]
    ELSE LET rec == SigToPub(hash, sig)
         IN  IF rec.err # "nil"
             THEN [ok |-> FALSE, err |-> ErrRecover, calls |-> <<"SigToPub">>]
             ELSE [ok |-> PubkeyToAddress(rec.pub) = address, err |-> "nil",
                   calls |-> <<"SigToPub", "PubkeyToAddress">>]

\* The end of Verify: rec is what SigToPub returned.
VerifyRecovered(address, rec) ==
    IF rec.err # "nil"
    THEN [ok |-> FALSE, err |-> ErrRecover, calls |-> <<"SigToPub">>]
    ELSE [ok |-> PubkeyToAddress(rec.pub) = address, err |-> "nil",
          calls |-> <<"SigToPub", "PubkeyToAddress">>]

\* Verify(address, hash, sig).
Verify(address, hash, sig) ==
    IF sig[vIdx + 1] # 27 /\ sig[vIdx + 1] # 28
    THEN [ok |-> FALSE, err |-> ErrRecID, calls |-> <<>>]
    ELSE VerifyRecovered(address, SigToPub(hash, [sig EXCEPT ![vIdx + 1] = @ - 27]))

(***************************************************************************)
(* k1util.go: key and address conversions.                                 *)
(***************************************************************************)
ErrPubLen == "invalid pubkey length"
ErrDecompress == "decompress pubkey"
ErrConvert == "convert to ECDSA"
ErrUnmarshal == "unmarshal pubkey"
ErrCmpPubKey == "invalid compressed public key"

ZeroAddress == Zeros(AddressLength)

\* The end of PubKeyToAddress and of PubKeyPBToAddress: dec is what
\* DecompressPubkey returned.
AddressOfDecompressed(dec) ==
    IF dec.err # "nil"
    THEN [addr |-> ZeroAddress, err |-> ErrDecompress,
          calls |-> <<"DecompressPubkey">>]
    ELSE [addr |-> PubkeyToAddress(dec.pub), err |-> "nil",
          calls |-> <<"DecompressPubkey", "PubkeyToAddress">>]

\* PubKeyToAddress(pubkey), pubkeyBytes = pubkey.Bytes().
PubKeyToAddress(pubkeyBytes) ==
    IF Len(pubkeyBytes) # pubkeyCompressedLen
    THEN [addr |-> ZeroAddress, err |-> ErrPubLen, calls |-> <<>>]
    ELSE AddressOfDecompressed(DecompressPubkey(pubkeyBytes))

\* StdPrivKeyToComet(privkey): FromECDSA pads the scalar to 32 bytes.
StdPrivKeyToComet(d) ==
    LET bz == BE32(d)
    IN  IF Len(bz) # privKeyLen
        THEN [key |-> <<>>, err |-> ErrKeyLen, calls |-> <<"FromECDSA">>]
        ELSE [key |-> bz, err |-> "nil", calls |-> <<"FromECDSA">>]

\* StdPrivKeyFromComet(privkey), bz = privkey.Bytes().
StdPrivKeyFromComet(bz) ==
    IF Len(bz) # privKeyLen
    THEN [d |-> 0, err |-> ErrKeyLen, calls |-> <<>>]
    ELSE LET resp == ToECDSA(bz)
         IN  IF resp.err # "nil"
             THEN [d |-> 0, err |-> ErrConvert, calls |-> <<"ToECDSA">>]
             ELSE [d |-> resp.d, err |-> "nil", calls |-> <<"ToECDSA">>]

\* PubKeyBytesToCosmos(pubkey): the SDK key wraps the bytes unchanged.
PubKeyBytesToCosmos(pubkey) ==
    IF Len(pubkey) # pubkeyCompressedLen
    THEN [key |-> <<>>, err |-> ErrPubLen, calls |-> <<>>]
    ELSE [key |-> pubkey, err |-> "nil", calls |-> <<>>]

\* StdPubKeyToCosmos(pubkey).
StdPubKeyToCosmos(pub) ==
    LET res == PubKeyBytesToCosmos(CompressPubkey(pub))
    IN  [res EXCEPT !.calls = <<"CompressPubkey">> \o @]

\* PubKeyToCosmos(pubkey).
PubKeyToCosmos(pubkeyBytes) == PubKeyBytesToCosmos(pubkeyBytes)

\* PBPubKeyFromBytes(pubkey).
PBPubKeyFromBytes(pubkey) ==
    IF Len(pubkey) # pubkeyCompressedLen
    THEN [key |-> <<>>, err |-> ErrPubLen, calls |-> <<>>]
    ELSE [key |-> pubkey, err |-> "nil", calls |-> <<>>]

\* PubKeyPBToAddress(pubkey), pubkeyBytes = pubkey.GetSecp256K1().
PubKeyPBToAddress(pubkeyBytes) ==
    IF Len(pubkeyBytes) # pubkeyCompressedLen
    THEN [addr |-> ZeroAddress, err |-> ErrPubLen, calls |-> <<>>]
    ELSE AddressOfDecompressed(DecompressPubkey(pubkeyBytes))

\* PubKeyToBytes64 that cuts the last byte instead of the prefix.
PubKeyToBytes64DropLast(pub) == SubSeq(FromECDSAPub(pub), 1, 64)

\* PubKeyToBytes64(pubkey).
PubKeyToBytes64(pub) == Tail(FromECDSAPub(pub))

\* PubKeyFromBytes64 that ignores the error of UnmarshalPubkey.
PubKeyFromBytes64IgnoresErr(pubkey) ==
    IF Len(pubkey) # pubkeyUncompressedLen - 1
    THEN [pk |-> Inf, err |-> ErrPubLen, calls |-> <<>>]
    ELSE [pk |-> Pt(FromBE(SubSeq(pubkey, 1, 32)), FromBE(SubSeq(pubkey, 33, 64))),
          err |-> "nil", calls |-> <<"UnmarshalPubkey">>]

\* PubKeyFromBytes64(pubkey).
PubKeyFromBytes64(pubkey) ==
    IF Len(pubkey) # pubkeyUncompressedLen - 1
    THEN [pk |-> Inf, err |-> ErrPubLen, calls |-> <<>>]
    ELSE LET resp == UnmarshalPubkey(<<prefix>> \o pubkey)
         IN  IF resp.err # "nil"
             THEN [pk |-> Inf, err |-> ErrUnmarshal, calls |-> <<"UnmarshalPubkey">>]
             ELSE [pk |-> resp.pub, err |-> "nil", calls |-> <<"UnmarshalPubkey">>]

\* CosmosPubkeyToEVMAddress(pubkeyCmp): no length check of its own; the
\* library's error is returned as it is.
EVMAddressOfDecompressed(key) ==
    IF key.err # "nil"
    THEN [addr |-> ZeroAddress, err |-> key.err,
          calls |-> <<"DecompressPubkey">>]
    ELSE [addr |-> PubkeyToAddress(key.pub), err |-> "nil",
          calls |-> <<"DecompressPubkey", "PubkeyToAddress">>]

CosmosPubkeyToEVMAddress(pubkeyCmp) ==
    EVMAddressOfDecompressed(DecompressPubkey(pubkeyCmp))

(***************************************************************************)
(* Hex text.  A string is a sequence of one-character strings.             *)
(***************************************************************************)
HexChars == <<"0", "1", "2", "3", "4", "5", "6", "7",
              "8", "9", "a", "b", "c", "d", "e", "f">>
UpperHexChars == <<"0", "1", "2", "3", "4", "5", "6", "7",
                   "8", "9", "A", "B", "C", "D", "E", "F">>

\* The value of a hex digit of either case; -1 for any other character.
HexVal(c) ==
    LET L == {i \in 1..16 : HexChars[i] = c \/ UpperHexChars[i] = c}
    IN  IF L = {} THEN -1 ELSE (CHOOSE i \in L : TRUE) - 1

IsHex(s) == \A i \in 1..Len(s) : HexVal(s[i]) >= 0

\* hex.EncodeToString.
HexEncode(bz) ==
    [i \in 1..(2 * Len(bz)) |->
        IF i % 2 = 1 THEN HexChars[(bz[(i + 1) \div 2] \div 16) + 1]
        ELSE HexChars[(bz[i \div 2] % 16) + 1]]

\* hex.DecodeString: an error on a character that is no hex digit and on
\* an odd length.
DecodeString(s) ==
    IF ~IsHex(s) THEN [bytes |-> <<>>, err |-> "invalid byte"]
    ELSE IF Len(s) % 2 = 1 THEN [bytes |-> <<>>, err |-> "odd length hex string"]
    ELSE [bytes |-> [i \in 1..(Len(s) \div 2) |->
                        16 * HexVal(s[2 * i - 1]) + HexVal(s[2 * i])],
          err |-> "nil"]

\* strings.ReplaceAll(s, "0x", ""): every "0x" removed.
RECURSIVE ReplaceAll0x(_)
ReplaceAll0x(s) ==
    IF Len(s) < 2 THEN s
    ELSE IF s[1] = "0" /\ s[2] = "x" THEN ReplaceAll0x(SubSeq(s, 3, Len(s)))
    ELSE <<s[1]>> \o ReplaceAll0x(Tail(s))

\* strings.Replace(s, "0x", "", 1): the first "0x", wherever it is, removed.
Replace0x(s) ==
    LET I == {i \in 1..(Len(s) - 1) : s[i] = "0" /\ s[i + 1] = "x"}
    IN  IF I = {} THEN s
        ELSE LET i == CHOOSE j \in I : \A k \in I : j <= k
             IN  SubSeq(s, 1, i - 1) \o SubSeq(s, i + 2, Len(s))

\* decodePubKeyFromHex(pubKeyHex).  The length error carries the offending
\* length as an attribute; cause tells it from the wrapped decoding error.
CheckDecoded(dec) ==
    IF dec.err # "nil"
    THEN [key |-> <<>>, err |-> ErrCmpPubKey, cause |-> dec.err,
          calls |-> <<"DecodeString">>]
    ELSE IF Len(dec.bytes) # PubKeyBytesLenCompressed
    THEN [key |-> <<>>, err |-> ErrCmpPubKey, cause |-> "length",
          calls |-> <<"DecodeString">>]
    ELSE [key |-> dec.bytes, err |-> "nil", cause |-> "nil",
          calls |-> <<"DecodeString">>]

decodePubKeyFromHex(pubKeyHex) == CheckDecoded(DecodeString(Replace0x(pubKeyHex)))

\* Stand-in for the SDK key's Address(), RIPEMD160(SHA256(key)): 20 bytes
\* mixed from every byte of the key.
CosmosAddress(key) ==
    [i \in 1..AddressLength |->
        (ModBE(key, 251) * (i + 1) + ModBE(key, 241) * (2 * i + 1) + key[1]) % 256]

\* Stand-in for the bech32 text of an address: the human-readable part, the
\* separator, then the payload digit by digit.
Bech32(hrp, bz) == <<hrp, "1">> \o HexEncode(bz)

\* The end of both address functions: pubKey is what decodePubKeyFromHex
\* returned, hrp the human-readable part of the address kind.
Bech32OfDecoded(hrp, pubKey) ==
    IF pubKey.err # "nil"
    THEN [text |-> <<>>, err |-> ErrCmpPubKey, cause |-> pubKey.cause,
          calls |-> pubKey.calls]
    ELSE [text |-> Bech32(hrp, CosmosAddress(pubKey.key)), err |-> "nil",
          cause |-> "nil", calls |-> pubKey.calls \o <<"Address">>]

\* CmpPubKeyToDelegatorAddress(cmpPubKeyHex).
CmpPubKeyToDelegatorAddress(cmpPubKeyHex) ==
    Bech32OfDecoded("acc", decodePubKeyFromHex(cmpPubKeyHex))

\* CmpPubKeyToValidatorAddress(cmpPubKeyHex).
CmpPubKeyToValidatorAddress(cmpPubKeyHex) ==
    Bech32OfDecoded("valoper", decodePubKeyFromHex(cmpPubKeyHex))

(***************************************************************************)
(* The inputs the operations are called with.                              *)
(***************************************************************************)
\* A buffer of length n whose last byte is v (the big-endian form of v).
Form(n, v) == [i \in 1..n |-> IF i = n THEN v ELSE 0]

\* bz cut or zero-padded on the right to length n.
Resize(bz, n) == [i \in 1..n |-> IF i <= Len(bz) THEN bz[i] ELSE 0]

\* Valid private scalars, and the public key of each.
Scalars == 1..MaxKey
PubOf(d) == ScalarBaseMult(d)

\* Private key byte forms: a valid scalar at every length up to MaxKeyLen.
PrivKeyForms == {Form(n, d) : n \in 0..MaxKeyLen, d \in Scalars}

\* 32-byte forms that are no valid scalar: 0, n and a value above n.
RejectedKeyForms == {Form(privKeyLen, d) : d \in {0, CurveN, 255}}

\* 32-byte digests: the values 0..MaxDigest and one above the group order.
Digests == {BE32(e) : e \in 0..MaxDigest} \cup {[i \in 1..32 |-> 255]}

\* key.PubKey().Bytes() of a 32-byte private key: the compressed public key.
CometPubKey(key) == CompressPubkey(ScalarBaseMult(PrivKeyFromBytes(key)))

\* addressOf(key).
AddressOf(key) == PubKeyToAddress(CometPubKey(key)).addr

\* Public key byte forms: compressed keys, the same cut or padded to every
\* length up to MaxPubLen, and 33-byte buffers with any first or last byte.
PubForms ==
    LET valid == {CompressPubkey(PubOf(d)) : d \in Scalars}
    IN  {Resize(c, n) : c \in valid, n \in 0..MaxPubLen}
        \cup {[c EXCEPT ![1] = b] : c \in valid, b \in {0, 1, 4, 5}}
        \cup {[c EXCEPT ![33] = b] : c \in {CompressPubkey(PubOf(1))}, b \in Byte}
        \cup {[c EXCEPT ![2] = 1] : c \in valid}

\* 64-byte forms: x || y of valid keys, cut or padded to the lengths around
\* 64, and with one byte of x or of y replaced.
Bytes64Forms ==
    LET valid == {PubKeyToBytes64(PubOf(d)) : d \in Scalars}
    IN  valid
        \cup {Resize(c, n) : c \in valid, n \in {0, 32, 33, 63, 65, 66}}
        \cup {[c EXCEPT ![i] = b] : c \in {PubKeyToBytes64(PubOf(1))},
                                     i \in {32, 64}, b \in Byte}
        \cup {[c EXCEPT ![i] = 1] : c \in valid, i \in {1, 33}}

\* Hex texts without a prefix: the encodings of public key forms of lengths
\* 32..34, in lower and upper case, and the same with the last digit cut.
HexBodies ==
    LET forms == {f \in PubForms : Len(f) \in 32..34 /\ f[Len(f)] < 16}
        lower == {HexEncode(f) : f \in forms}
        upper == {[i \in 1..Len(h) |-> UpperHexChars[HexVal(h[i]) + 1]] : h \in lower}
    IN  lower \cup upper \cup {SubSeq(h, 1, Len(h) - 1) : h \in lower}

\* The texts the hex functions are called with: a body, a body behind one
\* or two "0x", behind "0X", with "0x" in the middle, and with a character
\* that is no hex digit.
HexTexts ==
    HexBodies
        \cup {<<"0", "x">> \o h : h \in HexBodies}
        \cup {<<"0", "x", "0", "x">> \o h : h \in HexBodies}
        \cup {<<"0", "X">> \o h : h \in HexBodies}
        \cup {SubSeq(h, 1, 2) \o <<"0", "x">> \o SubSeq(h, 3, Len(h)) : h \in HexBodies}
        \cup {[h EXCEPT ![3] = "g"] : h \in HexBodies}

(***************************************************************************)
(* State: the last call (pc), its arguments (in), its results (out) and    *)
(* the library calls it made (calls).  The functions are pure and share no *)
(* state, so a run is one call from the initial state, or one of the two   *)
(* chains Sign; Verify and PubKeyToBytes64; PubKeyFromBytes64.             *)
(***************************************************************************)
InBlank ==
    [key |-> <<>>, hash |-> <<>>, addr |-> <<>>, sig |-> <<>>,
     signed |-> <<>>, digest |-> <<>>, pub |-> <<>>, text |-> <<>>,
     pk |-> Inf, d |-> 0]

OutBlank ==
    [bytes |-> <<>>, ok |-> FALSE, err |-> "nil", cause |-> "nil",
     pk |-> Inf, text |-> <<>>, compact |-> <<>>, d |-> 0]

Init ==
    /\ pc = "init"
    /\ in = InBlank
    /\ out = OutBlank
    /\ calls = <<>>

CallSign ==
    /\ pc = "init"
    /\ \E key \in PrivKeyForms, input \in Digests :
        \E res \in {Sign(key, input)} :
            /\ pc' = "Sign"
            /\ in' = [InBlank EXCEPT !.key = key, !.hash = input]
            /\ out' = [OutBlank EXCEPT !.bytes = res.sig, !.err = res.err,
                                       !.compact = res.compact]
            /\ calls' = res.calls

\* Verify after a successful Sign, with in.key, in.digest and in.signed
\* keeping what Sign was given and returned.  The signature is the one just
\* produced with byte i replaced by b (b may be the byte already there): any
\* byte of R or S for the signer's own address and digest; any value of V
\* for the signer's address, another signer's address or the zero address,
\* and for the signed digest or another one.
CallVerify ==
    /\ pc = "Sign"
    /\ out.err = "nil"
    /\ \E address \in {AddressOf(in.key), AddressOf(Form(privKeyLen, MaxKey)),
                       ZeroAddress},
          hash \in {in.hash, BE32(MaxDigest)} :
       \E i \in IF address = AddressOf(in.key) /\ hash = in.hash
                THEN 1..65 ELSE {65},
          b \in Byte :
          \E sig \in {[out.bytes EXCEPT ![i] = b]} :
          \E res \in {Verify(address, hash, sig)} :
                /\ pc' = "Verify"
                /\ in' = [InBlank EXCEPT !.key = in.key, !.digest = in.hash,
                                         !.signed = out.bytes, !.addr = address,
                                         !.hash = hash, !.sig = sig]
                /\ out' = [OutBlank EXCEPT !.ok = res.ok, !.err = res.err]
                /\ calls' = res.calls

CallPubKeyToAddress ==
    /\ pc = "init"
    /\ \E pubkey \in PubForms :
        \E res \in {PubKeyToAddress(pubkey)} :
            /\ pc' = "PubKeyToAddress"
            /\ in' = [InBlank EXCEPT !.pub = pubkey]
            /\ out' = [OutBlank EXCEPT !.bytes = res.addr, !.err = res.err]
            /\ calls' = res.calls

CallStdPrivKeyToComet ==
    /\ pc = "init"
    /\ \E d \in Scalars :
        \E res \in {StdPrivKeyToComet(d)} :
            /\ pc' = "StdPrivKeyToComet"
            /\ in' = [InBlank EXCEPT !.d = d]
            /\ out' = [OutBlank EXCEPT !.bytes = res.key, !.err = res.err]
            /\ calls' = res.calls

CallStdPrivKeyFromComet ==
    /\ pc = "init"
    /\ \E key \in PrivKeyForms \cup RejectedKeyForms :
        \E res \in {StdPrivKeyFromComet(key)} :
            /\ pc' = "StdPrivKeyFromComet"
            /\ in' = [InBlank EXCEPT !.key = key]
            /\ out' = [OutBlank EXCEPT !.d = res.d, !.err = res.err]
            /\ calls' = res.calls

CallStdPubKeyToCosmos ==
    /\ pc = "init"
    /\ \E d \in Scalars :
        \E res \in {StdPubKeyToCosmos(PubOf(d))} :
            /\ pc' = "StdPubKeyToCosmos"
            /\ in' = [InBlank EXCEPT !.pk = PubOf(d)]
            /\ out' = [OutBlank EXCEPT !.bytes = res.key, !.err = res.err]
            /\ calls' = res.calls

CallPubKeyToCosmos ==
    /\ pc = "init"
    /\ \E pubkey \in PubForms :
        \E res \in {PubKeyToCosmos(pubkey)} :
            /\ pc' = "PubKeyToCosmos"
            /\ in' = [InBlank EXCEPT !.pub = pubkey]
            /\ out' = [OutBlank EXCEPT !.bytes = res.key, !.err = res.err]
            /\ calls' = res.calls

CallPubKeyBytesToCosmos ==
    /\ pc = "init"
    /\ \E pubkey \in PubForms :
        \E res \in {PubKeyBytesToCosmos(pubkey)} :
            /\ pc' = "PubKeyBytesToCosmos"
            /\ in' = [InBlank EXCEPT !.pub = pubkey]
            /\ out' = [OutBlank EXCEPT !.bytes = res.key, !.err = res.err]
            /\ calls' = res.calls

CallPBPubKeyFromBytes ==
    /\ pc = "init"
    /\ \E pubkey \in PubForms :
        \E res \in {PBPubKeyFromBytes(pubkey)} :
            /\ pc' = "PBPubKeyFromBytes"
            /\ in' = [InBlank EXCEPT !.pub = pubkey]
            /\ out' = [OutBlank EXCEPT !.bytes = res.key, !.err = res.err]
            /\ calls' = res.calls

CallPubKeyPBToAddress ==
    /\ pc = "init"
    /\ \E pubkey \in PubForms :
        \E res \in {PubKeyPBToAddress(pubkey)} :
            /\ pc' = "PubKeyPBToAddress"
            /\ in' = [InBlank EXCEPT !.pub = pubkey]
            /\ out' = [OutBlank EXCEPT !.bytes = res.addr, !.err = res.err]
            /\ calls' = res.calls

CallPubKeyToBytes64 ==
    /\ pc = "init"
    /\ \E d \in Scalars :
        /\ pc' = "PubKeyToBytes64"
        /\ in' = [InBlank EXCEPT !.pk = PubOf(d)]
        /\ out' = [OutBlank EXCEPT !.bytes = PubKeyToBytes64(PubOf(d))]
        /\ calls' = <<"FromECDSAPub">>

\* PubKeyFromBytes64 of the bytes PubKeyToBytes64 just returned (in.pk keeps
\* the key they came from), or of any 64-byte form.
CallPubKeyFromBytes64 ==
    /\ pc \in {"init", "PubKeyToBytes64"}
    /\ \E pubkey \in IF pc = "init" THEN Bytes64Forms ELSE {out.bytes} :
        \E res \in {PubKeyFromBytes64(pubkey)} :
            /\ pc' = "PubKeyFromBytes64"
            /\ in' = [InBlank EXCEPT !.pub = pubkey, !.pk = in.pk]
            /\ out' = [OutBlank EXCEPT !.pk = res.pk, !.err = res.err]
            /\ calls' = res.calls

CallCosmosPubkeyToEVMAddress ==
    /\ pc = "init"
    /\ \E pubkey \in PubForms :
        \E res \in {CosmosPubkeyToEVMAddress(pubkey)} :
            /\ pc' = "CosmosPubkeyToEVMAddress"
            /\ in' = [InBlank EXCEPT !.pub = pubkey]
            /\ out' = [OutBlank EXCEPT !.bytes = res.addr, !.err = res.err]
            /\ calls' = res.calls

CallCmpPubKeyToDelegatorAddress ==
    /\ pc = "init"
    /\ \E text \in HexTexts :
        \E res \in {CmpPubKeyToDelegatorAddress(text)} :
            /\ pc' = "CmpPubKeyToDelegatorAddress"
            /\ in' = [InBlank EXCEPT !.text = text]
            /\ out' = [OutBlank EXCEPT !.text = res.text, !.err = res.err,
                                       !.cause = res.cause]
            /\ calls' = res.calls

CallCmpPubKeyToValidatorAddress ==
    /\ pc = "init"
    /\ \E text \in HexTexts :
        \E res \in {CmpPubKeyToValidatorAddress(text)} :
            /\ pc' = "CmpPubKeyToValidatorAddress"
            /\ in' = [InBlank EXCEPT !.text = text]
            /\ out' = [OutBlank EXCEPT !.text = res.text, !.err = res.err,
                                       !.cause = res.cause]
            /\ calls' = res.calls

Next ==
    \/ CallSign
    \/ CallVerify
    \/ CallPubKeyToAddress
    \/ CallStdPrivKeyToComet
    \/ CallStdPrivKeyFromComet
    \/ CallStdPubKeyToCosmos
    \/ CallPubKeyToCosmos
    \/ CallPubKeyBytesToCosmos
    \/ CallPBPubKeyFromBytes
    \/ CallPubKeyPBToAddress
    \/ CallPubKeyToBytes64
    \/ CallPubKeyFromBytes64
    \/ CallCosmosPubkeyToEVMAddress
    \/ CallCmpPubKeyToDelegatorAddress
    \/ CallCmpPubKeyToValidatorAddress

Spec == Init /\ [][Next]_vars

(***************************************************************************)
(* Properties.                                                             *)
(***************************************************************************)
\* The bytes of the verified signature that differ from what Sign returned.
TamperIdx == {i \in 1..65 : in.sig[i] # in.signed[i]}

\* Verify was called for the signer's own address and the signed digest.
OwnCall ==
    /\ pc = "Verify"
    /\ in.addr = AddressOf(in.key)
    /\ in.hash = in.digest

\* ... with a signature that differs from Sign's in exactly one byte of R or S.
TamperedRS ==
    /\ OwnCall
    /\ Cardinality(TamperIdx) = 1
    /\ TamperIdx \subseteq 1..64

\* ECDSA verification of (r, s) for digest value e under public key Q.
EcdsaVerifies(Q, e, r, s) ==
    /\ r > 0 /\ r < CurveN /\ s > 0 /\ s < CurveN
    /\ LET w == InvN(s)
           X == PointAdd(ScalarBaseMult((e * w) % CurveN),
                         ScalarMult((r * w) % CurveN, Q))
       IN  X # Inf /\ X.X % CurveN = r

\* No key can be recovered from (e, r, s, v): r or s is zero or not below
\* the group order, no point of the curve has abscissa r and v's parity, or
\* s * R = e * G, which makes the recovered key the point at infinity.
Unrecoverable(e, r, s, v) ==
    \/ r = 0 \/ r >= CurveN \/ s = 0 \/ s >= CurveN
    \/ \A y \in 0..(CurveP - 1) :
          (IsOnCurve(r, y) /\ y % 2 = v)
              => ScalarMult(s, Pt(r, y)) = ScalarBaseMult(e)

C1_RoundTripWhenVInRange ==
    (OwnCall /\ in.sig = in.signed /\ in.signed[65] \in {27, 28})
        => (out.ok /\ out.err = "nil")

\* C1 where Sign's V is 29 or 30 (the nonce point's abscissa is not below
\* the group order): Verify rejects Sign's own signature.
C1_OverflowRejected ==
    (OwnCall /\ in.sig = in.signed /\ in.signed[65] \notin {27, 28})
        => (in.signed[65] \in {29, 30} /\ out.ok = FALSE /\ out.err = ErrRecID)

\* C2: a signature whose byte 64 is neither 27 nor 28 makes Verify return
\* false with the invalid-recovery-id error, with no library call made.
C2_BadVRejected ==
    (pc = "Verify" /\ in.sig[vIdx + 1] \notin {27, 28})
        => (out.ok = FALSE /\ out.err = ErrRecID /\ calls = <<>>)

C2_Witness ==
    /\ pc = "Verify"
    /\ in.sig[vIdx + 1] = 1
    /\ in.signed[vIdx + 1] = 28
    /\ out.err = ErrRecID

\* C3 as stated: a one-byte change of R or S makes Verify return false with
\* no error.
C3_TamperReturnsFalse ==
    TamperedRS => (out.ok = FALSE /\ out.err = "nil")

\* C3 as amended: after a one-byte change of R or S, Verify returns the
\* recover-public-key error exactly when no key can be recovered from the
\* changed signature, and no error otherwise; it returns true only for a
\* change of R, and only if the changed (R, S) is itself a signature of the
\* digest under the signer's key.  When Sign's own V is not 27 or 28, it
\* returns the invalid-recovery-id error.
C3_TamperOutcome ==
    TamperedRS =>
        LET r == FromBE(SubSeq(in.sig, 1, 32))
            s == FromBE(SubSeq(in.sig, 33, 64))
            v == in.sig[65]
            e == ModBE(in.hash, CurveN)
        IN  IF v \notin {27, 28}
            THEN out.ok = FALSE /\ out.err = ErrRecID
            ELSE /\ out.err \in {"nil", ErrRecover}
                 /\ out.err = ErrRecover <=> Unrecoverable(e, r, s, v - 27)
                 /\ out.err = ErrRecover => out.ok = FALSE
                 /\ out.ok => /\ TamperIdx \subseteq 1..32
                              /\ EcdsaVerifies(PubOf(PrivKeyFromBytes(in.key)), e, r, s)

\* A changed R below the group order that is no abscissa of the curve:
\* Verify returns the error.
C3_Witness ==
    /\ TamperedRS
    /\ in.sig[65] \in {27, 28}
    /\ TamperIdx = {32}
    /\ in.sig[32] < CurveN
    /\ out.err = ErrRecover

\* C4: every function that takes a compressed public key returns the
\* invalid-length error for a key that is not 33 bytes long, before any
\* library call; the hex functions do so for the decoded bytes, before the
\* address is derived.
CompressedKeyFunctions ==
    {"PubKeyToAddress", "PubKeyPBToAddress", "PubKeyBytesToCosmos",
     "PubKeyToCosmos", "PBPubKeyFromBytes", "CosmosPubkeyToEVMAddress"}

HexFunctions == {"CmpPubKeyToDelegatorAddress", "CmpPubKeyToValidatorAddress"}

C4_LengthCheckedFirst ==
    /\ (pc \in CompressedKeyFunctions /\ Len(in.pub) # 33)
          => (out.err = ErrPubLen /\ calls = <<>>)
    /\ (pc \in HexFunctions /\ IsHex(in.text) /\ Len(in.text) % 2 = 0
            /\ Len(in.text) # 66)
          => (out.err = ErrCmpPubKey /\ out.cause = "length"
                /\ calls = <<"DecodeString">>)

\* C4 for the functions other than CosmosPubkeyToEVMAddress.
C4_OthersLengthCheckedFirst ==
    (pc = "CosmosPubkeyToEVMAddress") \/ C4_LengthCheckedFirst

\* CosmosPubkeyToEVMAddress on a key that is not 33 bytes long: the error is
\* the library's, returned after the library was called.
C4_CosmosDelegates ==
    (pc = "CosmosPubkeyToEVMAddress" /\ Len(in.pub) # 33)
        => (out.err = "invalid public key" /\ out.bytes = ZeroAddress
              /\ calls = <<"DecompressPubkey">>)

\* C5: for V in {27, 28}, Verify returns an error and false when recovery
\* from the digest and the signature with V reduced by 27 fails; when it
\* succeeds Verify returns no error, and true exactly when the address of
\* the recovered key is the expected address.
C5_VerifyPartition ==
    (pc = "Verify" /\ in.sig[vIdx + 1] \in {27, 28}) =>
        LET rec == SigToPub(in.hash, [in.sig EXCEPT ![vIdx + 1] = @ - 27])
        IN  IF rec.err # "nil"
            THEN out.err = ErrRecover /\ out.ok = FALSE
            ELSE /\ out.err = "nil"
                 /\ out.ok <=> (\A i \in 1..AddressLength :
                                   PubkeyToAddress(rec.pub)[i] = in.addr[i])

\* A valid signature checked against another signer's address: no error,
\* result false.
C5_Witness ==
    /\ pc = "Verify"
    /\ in.sig = in.signed
    /\ in.sig[vIdx + 1] \in {27, 28}
    /\ in.hash = in.digest
    /\ in.addr # AddressOf(in.key)
    /\ out.err = "nil"
    /\ out.ok = FALSE

\* C6: PubKeyToBytes64 of an on-curve key is the 64 bytes that follow the
\* 0x04 prefix of its uncompressed encoding, and PubKeyFromBytes64 of them
\* succeeds and returns the key.
C6_Bytes64RoundTrip ==
    /\ pc = "PubKeyToBytes64"
          => /\ Len(out.bytes) = 64
             /\ <<4>> \o out.bytes = <<4>> \o BE32(in.pk.X) \o BE32(in.pk.Y)
    /\ (pc = "PubKeyFromBytes64" /\ in.pk # Inf)
          => (out.err = "nil" /\ out.pk = in.pk)

C6_Witness ==
    /\ pc = "PubKeyFromBytes64"
    /\ in.pk # Inf
    /\ IsOnCurve(in.pk.X, in.pk.Y)
    /\ out.pk = in.pk

\* The result of the hex function pc names, on text t.
HexResult(t) ==
    LET res == IF pc = "CmpPubKeyToDelegatorAddress"
               THEN CmpPubKeyToDelegatorAddress(t)
               ELSE CmpPubKeyToValidatorAddress(t)
    IN  <<res.text, res.err>>

\* C7: for a text of hex digits h, the hex functions return for "0x" + h
\* what they return for h; only the first "0x" is removed, so "0x0x" + h
\* fails to decode.
C7_OptionalPrefix ==
    (pc \in HexFunctions /\ Len(in.text) >= 2 /\ SubSeq(in.text, 1, 2) = <<"0", "x">>)
        => LET h == SubSeq(in.text, 3, Len(in.text))
           IN  /\ IsHex(h) => <<out.text, out.err>> = HexResult(h)
               /\ (Len(h) >= 2 /\ SubSeq(h, 1, 2) = <<"0", "x">>)
                     => out.err = ErrCmpPubKey

C7_Witness ==
    /\ pc = "CmpPubKeyToDelegatorAddress"
    /\ Len(in.text) = 68
    /\ SubSeq(in.text, 1, 2) = <<"0", "x">>
    /\ IsHex(SubSeq(in.text, 3, 68))
    /\ out.err = "nil"
    /\ Len(out.text) > 0

C10_RotatedLeft ==
    (pc = "Sign" /\ Len(in.key) = 32) =>
        /\ out.err = "nil"
        /\ Len(out.bytes) = 65
        /\ out.compact = SignCompact(PrivKeyFromBytes(in.key), in.hash, FALSE)
        /\ \A i \in 1..64 : out.bytes[i] = out.compact[i + 1]
        /\ out.bytes[65] = out.compact[1]

C10_Witness ==
    /\ pc = "Sign"
    /\ Len(in.key) = 32
    /\ out.err = "nil"
    /\ out.compact[1] = 28
    /\ out.bytes[32] # out.bytes[64]

====
